---- MODULE Spec2Model ----
(***************************************************************************)
(* State-machine model of SimpleEnv (src/env.py): a MiniGrid room in which *)
(* an agent collects resources, crafts a sword and opens a chest.          *)
(*                                                                         *)
(* reset() and step(action) are the two entry points; each is one action.  *)
(* step() ends either in one of its own early returns (craft, open chest,  *)
(* toggle on a Resource) or in super().step(action), the step of           *)
(* minigrid.minigrid_env.MiniGridEnv, which reads the action number with   *)
(* the engine's own enumeration (0 left, 1 right, 2 forward, 3 pickup,     *)
(* 4 drop, 5 toggle).                                                      *)
(***************************************************************************)
EXTENDS Integers, Sequences, FiniteSets, TLC

(* ---------------------------- configuration --------------------------- *)

\* SimpleEnv(size=...): width and height of the square grid.  9 is the
\* smallest size for which every place_obj rectangle of _gen_grid holds an
\* interior cell (the crafting table is placed at x >= 7).
Size == 9

\* SimpleEnv(max_steps=...): the engine's step-count cutoff.
max_steps == 4

\* SimpleEnv(max_reward_episodes=...).
max_reward_episodes == 2

\* SimpleEnv(agent_start_pos=(1, 1), agent_start_dir=0).
InitialStartPos == <<1, 1>>

agent_start_dir == 0

(* ------------------------------- bounds ------------------------------- *)

\* reset() is explored while current_episode < MaxEpisodes.
MaxEpisodes == 2

\* step() is explored while fewer than MaxProcessCalls calls were made since
\* construction.
MaxProcessCalls == 7

(* ------------------------------ the world ----------------------------- *)

\* SimpleEnv.Actions
move_forward == 0

turn_left == 1

turn_right == 2

toggle == 3

craft_sword == 4

open_chest == 5

ActionValues == {move_forward, turn_left, turn_right, toggle, craft_sword, open_chest}

\* The Resource objects _gen_grid places, by resource_name.
ResourceKinds == {"Iron Ore", "Silver Ore", "Platinum Ore", "Gold Ore", "Tree"}

\* Box("purple") is the chest, Box("blue") the crafting table.
BoxKinds == {"Chest", "Crafting Table"}

\* self.resource_names
resource_names == <<"Iron Ore", "Silver Ore", "Platinum Ore", "Gold Ore", "Tree", "Chest", "Crafting Table", "Wall">>

Cells == (0 .. Size - 1) \X (0 .. Size - 1)

\* agent_pos before the first reset (None); place_agent writes (-1, -1).
NoPos == <<-1, -1>>

IsResource(obj) == obj \in ResourceKinds

IsBox(obj) == obj \in BoxKinds

\* Grid(width, height) of the engine's constructor: no object anywhere.
EmptyGrid == [c \in Cells |-> "Empty"]

\* Grid.wall_rect(0, 0, width, height): the outer ring is Wall.
WallGrid == [c \in Cells |-> IF c[1] = 0 \/ c[2] = 0 \/ c[1] = Size - 1 \/ c[2] = Size - 1 THEN "Wall" ELSE "Empty"]

\* The order and the `top` corner of the seven place_obj calls of _gen_grid.
PlaceOrder == <<"Iron Ore", "Silver Ore", "Platinum Ore", "Gold Ore", "Tree", "Chest", "Crafting Table">>

PlaceTop(i) == <<i, 1>>

\* DIR_TO_VEC of the engine: 0 east, 1 south, 2 west, 3 north.
DirVec(d) == CASE d = 0 -> <<1, 0>> [] d = 1 -> <<0, 1>> [] d = 2 -> <<-1, 0>> [] OTHER -> <<0, -1>>

VARIABLES grid, agent_pos, agent_dir, agent_start_pos, carrying, inventory, sword_crafted, collected_resources_global, current_episode, step_count, reward, terminated, truncated, action, branch, calls, process_calls, ever_collected, episode_events, process_crafts, record_at_reset, lidar_obs

vars == <<grid, agent_pos, agent_dir, agent_start_pos, carrying, inventory, sword_crafted, collected_resources_global, current_episode, step_count, reward, terminated, truncated, action, branch, calls, process_calls, ever_collected, episode_events, process_crafts, record_at_reset, lidar_obs>>

\* self.front_pos and the cell in front of the agent.
FrontPos == <<agent_pos[1] + DirVec(agent_dir)[1], agent_pos[2] + DirVec(agent_dir)[2]>>

FwdCell == grid[FrontPos]

(* ------------------------------ the ledger ---------------------------- *)

Count(seq, item) == Cardinality({i \in 1 .. Len(seq) : seq[i] = item})

Contains(seq, item) == \E i \in 1 .. Len(seq) : seq[i] = item

\* list.remove(item): drops the first occurrence (the caller checked it is there).
Remove(seq, item) == LET i == CHOOSE k \in 1 .. Len(seq) : seq[k] = item /\ \A j \in 1 .. k - 1 : seq[j] # item
                     IN  [k \in 1 .. Len(seq) - 1 |-> IF k < i THEN seq[k] ELSE seq[k + 1]]

(* -------------------------------- reset ------------------------------- *)

\* Init: the object as SimpleEnv.__init__ leaves it.  The engine's constructor
\* allocates an empty Grid and sets agent_pos, agent_dir and carrying to None.
Init ==
    /\ grid = EmptyGrid
    /\ agent_pos = NoPos
    /\ agent_dir = -1
    /\ agent_start_pos = InitialStartPos
    /\ carrying = "None"
    /\ inventory = <<>>
    /\ sword_crafted = FALSE
    /\ collected_resources_global = {}
    /\ current_episode = 0
    /\ step_count = 0
    /\ reward = 0
    /\ terminated = FALSE
    /\ truncated = FALSE
    /\ action = -1
    /\ branch = "init"
    /\ calls = 0
    /\ process_calls = 0
    /\ ever_collected = {}
    /\ episode_events = {}
    /\ process_crafts = 0
    /\ record_at_reset = {}
    /\ lidar_obs = <<>>

\* place_obj draws a cell of its rectangle at random and retries until the cell
\* is free, so a placement is any sequence of cells it accepts.  These are the
\* draws explored: one with the objects around cell (6, 3), one with every
\* object at its `top` corner.
LayoutCompact == <<(<<6, 4>>), (<<2, 1>>), (<<3, 1>>), (<<4, 1>>), (<<5, 3>>), (<<6, 2>>), (<<7, 3>>)>>

LayoutRow == <<(<<1, 1>>), (<<2, 1>>), (<<3, 1>>), (<<4, 1>>), (<<5, 1>>), (<<6, 1>>), (<<7, 1>>)>>

ExploredLayouts == {LayoutCompact, LayoutRow}

\* The cells explored for the random draw of place_agent.
ExploredAgentCells == {(<<6, 3>>), (<<1, 1>>)}

\* place_obj(obj, top=PlaceTop(i)) accepts lay[i]: inside the rectangle from
\* `top` to the grid's far corner, on no object placed so far (walls included)
\* and not the cell agent_pos still names (the previous episode's).
PlaceObjAccepts(lay, i, prevAgent) ==
    /\ lay[i] \in Cells
    /\ lay[i][1] >= PlaceTop(i)[1]
    /\ lay[i][2] >= PlaceTop(i)[2]
    /\ WallGrid[lay[i]] = "Empty"
    /\ \A j \in 1 .. i - 1 : lay[j] # lay[i]
    /\ lay[i] # prevAgent

\* The grid after wall_rect and the seven place_obj calls.
GenGrid(lay) == [c \in Cells |-> IF \E i \in 1 .. Len(PlaceOrder) : lay[i] = c
                                 THEN PlaceOrder[CHOOSE i \in 1 .. Len(PlaceOrder) : lay[i] = c]
                                 ELSE WallGrid[c]]

\* _gen_grid's grid for each explored draw.
GeneratedGrid == [lay \in ExploredLayouts |-> GenGrid(lay)]

\* empty_positions[0]: x is the outer loop, y the inner one, over the interior.
FirstEmpty(g) == CHOOSE c \in Cells :
    /\ c[1] \in 1 .. Size - 2 /\ c[2] \in 1 .. Size - 2 /\ g[c] = "Empty"
    /\ \A d \in Cells : (d[1] \in 1 .. Size - 2 /\ d[2] \in 1 .. Size - 2 /\ g[d] = "Empty")
                        => (c[1] < d[1] \/ (c[1] = d[1] /\ c[2] <= d[2]))

\* _gen_grid's choice of agent_start_pos: kept when the cell is free, else
\* overwritten with the first empty interior cell (no object here overlaps).
StartPosAfterGen(g, start) == IF g[start] # "Empty" THEN FirstEmpty(g) ELSE start

\* A reset that leaves the sword-crafted flag as it was.
ResetSwordCraftedKept == sword_crafted

\* A reset that keeps the previous episode's ledger.
ResetInventoryKept == inventory

\* A reset that starts the record of collected kinds anew.
ResetGlobalCleared(record) == {}

\* What reset() leaves in the ledger, the flag, the counter and the record.
ResetInventory == <<>>

ResetSwordCrafted == FALSE

ResetStepCount == 0

ResetGlobal(record) == record

\* An episode counter that starts over at every reset.
NextEpisodeRestarted(episode) == 1

\* Lines 306-307.
NextEpisode(episode) == episode + 1

\* reset(): clear the episode state, count the episode, rebuild the grid, then
\* place_agent() draws the agent's cell and direction anew.
Reset ==
    /\ current_episode < MaxEpisodes
    /\ \E lay \in ExploredLayouts :
        /\ \A i \in 1 .. Len(PlaceOrder) : PlaceObjAccepts(lay, i, agent_pos)
        /\ grid' = GeneratedGrid[lay]
        /\ agent_start_pos' = StartPosAfterGen(GeneratedGrid[lay], agent_start_pos)
        /\ \E pos \in ExploredAgentCells, dir \in 0 .. 3 :
            /\ GeneratedGrid[lay][pos] = "Empty"
            /\ agent_pos' = pos
            /\ agent_dir' = dir
    /\ inventory' = ResetInventory
    /\ sword_crafted' = ResetSwordCrafted
    /\ current_episode' = NextEpisode(current_episode)
    /\ step_count' = ResetStepCount
    /\ collected_resources_global' = ResetGlobal(collected_resources_global)
    /\ reward' = 0
    /\ terminated' = FALSE
    /\ truncated' = FALSE
    /\ action' = -1
    /\ branch' = "reset"
    /\ calls' = 0
    /\ episode_events' = {}
    /\ record_at_reset' = collected_resources_global
    /\ UNCHANGED <<carrying, process_calls, ever_collected, process_crafts, lidar_obs>>

(* -------------------------------- step -------------------------------- *)

\* What every return of step() shows the caller, with the history the claims
\* speak of: the action submitted, the return taken, the number of step calls
\* since reset, and the kinds whose count in the ledger some step has raised.
Returned(a, b) ==
    /\ action' = a
    /\ branch' = b
    /\ calls' = calls + 1
    /\ process_calls' = process_calls + 1
    /\ ever_collected' = ever_collected \cup {k \in ResourceKinds : Count(inventory', k) > Count(inventory, k)}

\* The history of the episode and of the process, read off what a step did:
\* the kinds it put in the ledger, a sword it put there ("craft"), and a
\* terminated or truncated flag it returned ("over"); the number of swords
\* crafted since construction.  The observation is not recorded here.
Recorded ==
    /\ episode_events' = episode_events
            \cup {k \in ResourceKinds : Count(inventory', k) > Count(inventory, k)}
            \cup (IF Count(inventory', "Iron Sword") > Count(inventory, "Iron Sword") THEN {"craft"} ELSE {})
            \cup (IF terminated' \/ truncated' THEN {"over"} ELSE {})
    /\ process_crafts' = process_crafts + (IF Count(inventory', "Iron Sword") > Count(inventory, "Iron Sword") THEN 1 ELSE 0)
    /\ UNCHANGED <<record_at_reset, lidar_obs>>

\* Line 253: the materials are in the ledger and no sword was crafted yet.
CraftAllowed(inv, crafted) == Contains(inv, "Tree") /\ Contains(inv, "Iron Ore") /\ ~crafted

\* A craft that forgets to take the ore out of the ledger.
CraftedInventoryKeepsOre(inv) == Append(Remove(inv, "Tree"), "Iron Sword")

\* Lines 254-256.
CraftedInventory(inv) == Append(Remove(Remove(inv, "Tree"), "Iron Ore"), "Iron Sword")

\* Lines 259-260: the bonus of the early episodes.
CraftBonus(episode) == IF episode < max_reward_episodes THEN 50 ELSE 0

\* Line 262: the penalty of a failed craft.
CraftPenalty == -1

\* Lines 252-263: craft_sword while facing the blue Box.
StepCraft ==
    /\ IF CraftAllowed(inventory, sword_crafted)
       THEN /\ inventory' = CraftedInventory(inventory)
            /\ sword_crafted' = TRUE
            /\ reward' = -1 + CraftBonus(current_episode)
            /\ Returned(craft_sword, "craft_ok")
       ELSE /\ reward' = -1 + CraftPenalty
            /\ UNCHANGED <<inventory, sword_crafted>>
            /\ Returned(craft_sword, "craft_fail")
    /\ terminated' = FALSE
    /\ truncated' = FALSE
    /\ UNCHANGED <<grid, agent_pos, agent_dir, agent_start_pos, carrying, collected_resources_global, current_episode, step_count>>

\* A chest that also opens on the raw materials, without a craft.
ChestOpensWithMaterials(inv) == Contains(inv, "Iron Sword") \/ (Contains(inv, "Tree") /\ Contains(inv, "Iron Ore"))

\* A chest that opens without looking for the sword.
ChestOpensUnchecked(inv) == TRUE

\* Line 271.
ChestOpens(inv) == Contains(inv, "Iron Sword")

\* Line 274.
TreasureReward == 1000

\* An open without the sword whose penalty is cancelled: the time step alone.
OpenPenaltyForgotten == -1 + 1

\* Line 277: the penalty of opening without the sword.
OpenPenalty == -1

\* Lines 270-278: open_chest while facing the purple Box.
StepOpen ==
    /\ IF ChestOpens(inventory)
       THEN /\ inventory' = Append(inventory, "Treasure")
            /\ reward' = -1 + TreasureReward
            /\ terminated' = TRUE
            /\ Returned(open_chest, "open_ok")
       ELSE /\ reward' = -1 + OpenPenalty
            /\ terminated' = FALSE
            /\ UNCHANGED inventory
            /\ Returned(open_chest, "open_fail")
    /\ truncated' = FALSE
    /\ UNCHANGED <<grid, agent_pos, agent_dir, agent_start_pos, carrying, sword_crafted, collected_resources_global, current_episode, step_count>>

\* A toggle that collects whatever the record says.
FirstCollectionAlways(kind, record) == TRUE

\* A bonus gated by this episode's ledger instead of the process-wide record.
FirstCollectionPerEpisode(kind, record) == ~Contains(inventory, kind)

\* Line 286: the kind was never recorded.
FirstCollection(kind, record) == kind \notin record

\* Line 290 and line 292.
CollectReward == 1

RedundantPenalty == -1

\* A collection that leaves the object on the grid.
GridAfterCollectKept(g, pos) == g

\* Line 289: self.grid.set(*fwd_pos, None).
GridAfterCollect(g, pos) == [g EXCEPT ![pos] = "Empty"]

\* Lines 285-293: toggle while facing a Resource.  Only a first collection
\* records the kind, appends it and clears the cell; a redundant one changes
\* the reward alone.
StepToggle ==
    /\ IF FirstCollection(FwdCell, collected_resources_global)
       THEN /\ collected_resources_global' = collected_resources_global \cup {FwdCell}
            /\ inventory' = Append(inventory, FwdCell)
            /\ grid' = GridAfterCollect(grid, FrontPos)
            /\ reward' = -1 + CollectReward
            /\ Returned(toggle, "collect")
       ELSE /\ reward' = -1 + RedundantPenalty
            /\ UNCHANGED <<collected_resources_global, inventory, grid>>
            /\ Returned(toggle, "redundant")
    /\ terminated' = FALSE
    /\ truncated' = FALSE
    /\ UNCHANGED <<agent_pos, agent_dir, agent_start_pos, carrying, sword_crafted, current_episode, step_count>>

\* WorldObj.can_pickup: Ball (Resource) and Box can be picked up, Wall cannot.
CanPickup(obj) == IsResource(obj) \/ IsBox(obj)

\* MiniGridEnv.step(a), reached at line 296.  The engine counts the step and
\* reads `a` in its own enumeration: 0 turns left, 1 turns right, 2 moves
\* forward, 3 picks up the object in front, 4 drops the carried object,
\* 5 toggles the object in front (a Box is replaced by its empty contents).
\* Its reward is 0 in a room without a goal, it never terminates, and it
\* reports truncated once step_count reaches max_steps.
EngineStep(a) ==
    /\ step_count' = step_count + 1
    /\ agent_dir' = CASE a = 0 -> (agent_dir + 3) % 4
                      [] a = 1 -> (agent_dir + 1) % 4
                      [] OTHER -> agent_dir
    /\ agent_pos' = IF a = 2 /\ FwdCell = "Empty" THEN FrontPos ELSE agent_pos
    /\ CASE a = 3 /\ CanPickup(FwdCell) /\ carrying = "None" ->
              /\ carrying' = FwdCell
              /\ grid' = [grid EXCEPT ![FrontPos] = "Empty"]
         [] a = 4 /\ FwdCell = "Empty" /\ carrying # "None" ->
              /\ grid' = [grid EXCEPT ![FrontPos] = carrying]
              /\ carrying' = "None"
         [] a = 5 /\ IsBox(FwdCell) ->
              /\ grid' = [grid EXCEPT ![FrontPos] = "Empty"]
              /\ UNCHANGED carrying
         [] OTHER -> UNCHANGED <<grid, carrying>>
    /\ reward' = -1 + 0
    /\ terminated' = FALSE
    /\ truncated' = (step_count' >= max_steps)
    /\ UNCHANGED <<agent_start_pos, inventory, sword_crafted, collected_resources_global, current_episode>>
    /\ Returned(a, "engine")

\* step(action), lines 244-299.  It needs a reset first: front_pos of a
\* freshly constructed environment raises.
Step(a) ==
    /\ agent_pos # NoPos
    /\ process_calls < MaxProcessCalls
    /\ CASE a = craft_sword /\ FwdCell = "Crafting Table" -> StepCraft
         [] a = open_chest /\ FwdCell = "Chest" -> StepOpen
         [] a = toggle /\ IsResource(FwdCell) -> StepToggle
         [] OTHER -> EngineStep(a)
    /\ Recorded

Next == Reset \/ \E a \in ActionValues : Step(a)

Spec == Init /\ [][Next]_vars

(* ------------------------------- claims ------------------------------- *)

\* A step() call with action a is the transition at hand (reset leaves
\* process_calls alone, and so does stuttering).
StepTaken(a) == process_calls' = process_calls + 1 /\ action' = a

\* This step put an "Iron Sword" in the ledger and left the flag set.
CraftSucceeded == Count(inventory', "Iron Sword") = Count(inventory, "Iron Sword") + 1 /\ sword_crafted'

\* C1: a craft_sword step succeeds (adds "Iron Sword", sets the flag) exactly
\* when, before the step, the agent faces the crafting table, the ledger holds
\* "Tree" and "Iron Ore" and the flag is false; after a success the ledger
\* holds no "Tree", no "Iron Ore" and exactly one "Iron Sword".
C1_CraftIffPreconditions ==
    [][StepTaken(craft_sword) =>
        /\ CraftSucceeded <=> (/\ FwdCell = "Crafting Table"
                               /\ Contains(inventory, "Tree")
                               /\ Contains(inventory, "Iron Ore")
                               /\ ~sword_crafted)
        /\ CraftSucceeded => (/\ ~Contains(inventory', "Tree")
                              /\ ~Contains(inventory', "Iron Ore")
                              /\ Count(inventory', "Iron Sword") = 1)
        /\ ~CraftSucceeded => UNCHANGED <<inventory, sword_crafted>>]_vars

\* C1 witness: a craft has just succeeded.
C1_Witness == branch = "craft_ok" /\ action = craft_sword /\ sword_crafted /\ inventory = <<"Iron Sword">>

\* C2: an open_chest step facing the chest returns terminated = true exactly
\* when "Iron Sword" is in the ledger before the step; when it terminates the
\* reward is 999 and "Treasure" is appended to the ledger.
C2_OpenTerminatesIffSword ==
    [][(StepTaken(open_chest) /\ FwdCell = "Chest") =>
        /\ terminated' <=> Contains(inventory, "Iron Sword")
        /\ terminated' => (reward' = 999 /\ inventory' = Append(inventory, "Treasure"))]_vars

\* C2 witness: the chest was opened with the sword.
C2_Witness == branch = "open_ok" /\ action = open_chest /\ terminated /\ reward = 999 /\ Contains(inventory, "Treasure")

\* C3: a toggle step on a Resource of kind k returns -1 + 1 when no step of
\* the process has collected k before, and -1 - 1 on every later toggle on a
\* Resource of kind k, whichever episode it is in.
C3_BonusOncePerProcess ==
    [][(StepTaken(toggle) /\ IsResource(FwdCell)) =>
        reward' = (IF FwdCell \notin ever_collected THEN 0 ELSE -2)]_vars

\* C3 witness: a kind collected in an earlier episode was toggled again.
C3_Witness == branch = "redundant" /\ reward = -2 /\ current_episode > 1 /\ inventory = <<>> /\ ever_collected # {}

\* C4: a toggle step facing a Resource whose kind is already in the record
\* still appends the kind to the ledger and clears the cell; only the reward
\* differs (-1 - 1).
C4_RedundantStillCollected ==
    [][(StepTaken(toggle) /\ IsResource(FwdCell) /\ FwdCell \in collected_resources_global) =>
        /\ inventory' = Append(inventory, FwdCell)
        /\ grid' = [grid EXCEPT ![FrontPos] = "Empty"]
        /\ reward' = -2]_vars

\* C5: right after reset returns, the ledger is empty, the flag is false and
\* the step counter is 0, whatever came before.
C5_ResetClearsEpisodeState == branch = "reset" => (inventory = <<>> /\ ~sword_crafted /\ step_count = 0)

\* C5 witness: a reset that followed an episode in which something was collected.
C5_Witness == branch = "reset" /\ current_episode = 2 /\ ever_collected # {}

\* C6: the record of collected kinds only grows; reset never clears it, and
\* only a toggle step facing a Resource adds to it.
C6_GlobalRecordMonotonic ==
    [][/\ collected_resources_global \subseteq collected_resources_global'
       /\ collected_resources_global' # collected_resources_global =>
              (StepTaken(toggle) /\ IsResource(FwdCell) /\ collected_resources_global' = collected_resources_global \cup {FwdCell})]_vars

\* C6 witness: a non-empty record right after a reset.
C6_Witness == branch = "reset" /\ collected_resources_global # {} /\ calls = 0

\* C7: every step call increments the step counter by one, so after n step
\* calls following a reset the step counter equals n.
C7_StepCounterCountsCalls == step_count = calls

\* C8: a toggle step facing a Container changes neither the ledger nor the
\* grid, returns -1 - 1 and does not terminate.
C8_ToggleContainerPenalised ==
    [][(StepTaken(toggle) /\ IsBox(FwdCell)) =>
        (UNCHANGED <<inventory, grid>> /\ reward' = -2 /\ ~terminated')]_vars

\* C9: a craft_sword step facing the crafting table whose preconditions fail,
\* and an open_chest step facing the chest without "Iron Sword", each return
\* reward -2 and terminated = false and leave the ledger, the flag, the grid
\* and the record unchanged.
C9_FailedAttemptIsSoft ==
    [][(\/ /\ StepTaken(craft_sword)
           /\ FwdCell = "Crafting Table"
           /\ ~(Contains(inventory, "Tree") /\ Contains(inventory, "Iron Ore") /\ ~sword_crafted)
        \/ /\ StepTaken(open_chest)
           /\ FwdCell = "Chest"
           /\ ~Contains(inventory, "Iron Sword")) =>
        /\ reward' = -2
        /\ ~terminated'
        /\ UNCHANGED <<inventory, sword_crafted, grid, collected_resources_global>>]_vars

\* C9 witness: the chest was tried without the sword after materials were collected.
C9_Witness == branch = "open_fail" /\ action = open_chest /\ reward = -2 /\ ~terminated /\ inventory # <<>>

\* C10: a craft_sword step not facing the crafting table, and an open_chest
\* step not facing the chest, change neither the ledger, the flag, the grid
\* nor the record, return the base -1 and do not terminate.
C10_WrongTargetIsNoOp ==
    [][(\/ StepTaken(craft_sword) /\ FwdCell # "Crafting Table"
        \/ StepTaken(open_chest) /\ FwdCell # "Chest") =>
        /\ UNCHANGED <<inventory, sword_crafted, grid, collected_resources_global>>
        /\ reward' = -1
        /\ ~terminated']_vars

\* Some step() call is the transition at hand.
AnyStepTaken == process_calls' = process_calls + 1

\* The cells of the outer ring.
OuterRing == {c \in Cells : c[1] = 0 \/ c[2] = 0 \/ c[1] = Size - 1 \/ c[2] = Size - 1}

\* C11: a successful craft_sword returns the +50 bonus (reward 49) in each of
\* the first max_reward_episodes episodes, counted by reset calls from
\* construction, and in no later episode.
C11_BonusInFirstEpisodes ==
    [][(AnyStepTaken /\ CraftSucceeded) =>
        (reward' = 49 <=> current_episode <= max_reward_episodes)]_vars

\* C12: after reset returns, the agent stands on the preferred start cell with
\* the configured orientation when that cell is empty after object placement,
\* and on the first empty interior cell of the scan when it is occupied.
C12_AgentAtPreferredStart ==
    [][(current_episode' = current_episode + 1) =>
        IF grid'[agent_start_pos] = "Empty"
        THEN agent_pos' = agent_start_pos /\ agent_dir' = agent_start_dir
        ELSE agent_pos' = FirstEmpty(grid')]_vars

\* C13: the episode index goes up by exactly one on every reset and is left
\* alone by every step; it never goes down.
C13_EpisodeIndexCountsResets ==
    [][IF AnyStepTaken
       THEN current_episode' = current_episode
       ELSE current_episode' = current_episode + 1]_vars

\* C13 witness: steps were taken in the second episode.
C13_Witness == current_episode = 2 /\ branch = "engine" /\ calls >= 2

\* C14: among the first max_steps step calls after a reset, at least one
\* returns terminated = true or truncated = true.
C14_EpisodeEndsWithinMaxSteps == calls >= max_steps => "over" \in episode_events

\* C15: a step that returns terminated = true is an open_chest step facing the
\* chest, after a successful craft in the same episode; a successful craft
\* comes after the collection of "Tree" and "Iron Ore" in the same episode;
\* and a kind enters the ledger only by a toggle step facing that Resource.
C15_CollectCraftOpenOrder ==
    [][AnyStepTaken =>
        /\ terminated' => (action' = open_chest /\ FwdCell = "Chest" /\ "craft" \in episode_events)
        /\ CraftSucceeded => (action' = craft_sword /\ {"Tree", "Iron Ore"} \subseteq episode_events)
        /\ \A k \in ResourceKinds : Count(inventory', k) > Count(inventory, k) => (action' = toggle /\ FwdCell = k)]_vars

\* C15 witness: an episode that ended by the chest, with its collections and its craft on record.
C15_Witness == terminated /\ {"Tree", "Iron Ore", "craft", "over"} \subseteq episode_events

\* C16: after any step the outer ring holds a Wall at every cell, and a cell
\* that held the chest or the crafting table still holds it.
C16_WallsAndContainersStay ==
    [][AnyStepTaken =>
        /\ \A c \in OuterRing : grid'[c] = "Wall"
        /\ \A c \in Cells : grid[c] \in BoxKinds => grid'[c] = grid[c]]_vars

\* C18: the sword-crafted flag is true exactly when the ledger holds "Iron
\* Sword", the ledger holds at most one, and "Treasure" is in the ledger only
\* if "Iron Sword" is.
C18_FlagMatchesLedger ==
    /\ sword_crafted <=> Contains(inventory, "Iron Sword")
    /\ Count(inventory, "Iron Sword") <= 1
    /\ Contains(inventory, "Treasure") => Contains(inventory, "Iron Sword")

\* C18 witness: the flag is set and the ledger holds the sword and the treasure.
C18_Witness == sword_crafted /\ Count(inventory, "Iron Sword") = 1 /\ Count(inventory, "Treasure") = 1

InventoryObservation(inv) == [i \in 1 .. Len(resource_names) |-> Count(inv, resource_names[i])]

\* The number of objects of a kind on the grid.
OnGrid(kind) == Cardinality({c \in Cells : grid[c] = kind})

\* C20: for each resource kind, the copies in the ledger plus the objects on
\* the grid are at most one, and every inventory count of the observation is
\* below 10.
C20_ResourcesConserved ==
    /\ \A k \in ResourceKinds : Count(inventory, k) + OnGrid(k) <= 1
    /\ \A i \in 1 .. Len(resource_names) : InventoryObservation(inventory)[i] < 10

\* C20 witness: two kinds are in the ledger and off the grid.
C20_Witness == \E k1, k2 \in ResourceKinds : k1 # k2 /\ Count(inventory, k1) = 1 /\ Count(inventory, k2) = 1 /\ OnGrid(k1) = 0 /\ OnGrid(k2) = 0

(* ------------------------------ the sensor ---------------------------- *)

\* The vector (dx, dy) turned back by i * 45 degrees (and stretched by sqrt 2
\* for odd i, which keeps its bearing): its bearing is the angle_diff of line
\* 132 for beam i, whose angle is i * 2 pi / 8 (line 116).
Rotated(i, dx, dy) ==
    CASE i = 0 -> <<dx, dy>>
      [] i = 1 -> <<dx + dy, dy - dx>>
      [] i = 2 -> <<dy, -dx>>
      [] i = 3 -> <<dy - dx, -dx - dy>>
      [] i = 4 -> <<-dx, -dy>>
      [] i = 5 -> <<-dx - dy, dx - dy>>
      [] i = 6 -> <<-dy, dx>>
      [] OTHER -> <<dx - dy, dx + dy>>

Abs(n) == IF n < 0 THEN -n ELSE n

\* Line 134, abs(angle_diff) <= pi / 8, in exact arithmetic: the turned vector
\* (X, Y) has X > 0 and |Y| / X <= tan(pi / 8) = sqrt 2 - 1, that is
\* (|Y| + X)^2 <= 2 X^2.  arctan2(0, 0) is 0, so the agent's own cell lies in
\* beam 0 alone.
InSector(i, dx, dy) ==
    IF dx = 0 /\ dy = 0
    THEN i = 0
    ELSE LET X == Rotated(i, dx, dy)[1]
             Y == Rotated(i, dx, dy)[2]
         IN  X > 0 /\ (Abs(Y) + X) * (Abs(Y) + X) <= 2 * X * X

\* Line 129: the Euclidean distance, kept as its square (the order is the same).
Dist2(c, pos) == (c[1] - pos[1]) * (c[1] - pos[1]) + (c[2] - pos[2]) * (c[2] - pos[2])

\* get_entity_index (lines 143-150): the slot of an object in resource_names.
EntityIndex(obj) == CHOOSE j \in 1 .. Len(resource_names) : resource_names[j] = obj

\* A scan in which an object at the same distance replaces the one kept.
CloserOrEqual(d2, min_d2) == min_d2 < 0 \/ d2 <= min_d2

\* Line 134, dist_to_obj < min_dist; a negative min_d2 stands for float('inf').
Closer(d2, min_d2) == min_d2 < 0 \/ d2 < min_d2

\* Lines 122-136 for beam i: the cells in the order of the two loops, x outer
\* and y inner, from the k-th cell on; best is <<min_d2, closest_entity_idx>>.
RECURSIVE ScanSector(_, _, _, _, _)
ScanSector(g, pos, i, k, best) ==
    IF k = Size * Size
    THEN best
    ELSE LET c == <<k \div Size, k % Size>>
         IN  IF g[c] # "Empty" /\ InSector(i, c[1] - pos[1], c[2] - pos[2]) /\ Closer(Dist2(c, pos), best[1])
             THEN ScanSector(g, pos, i, k + 1, <<Dist2(c, pos), EntityIndex(g[c])>>)
             ELSE ScanSector(g, pos, i, k + 1, best)

\* get_lidar_observation (lines 114-141): one row per beam, zero but for the
\* slot of the entity kept, which holds min_dist / width; the value is stood
\* for by the squared distance, zero exactly when min_dist is.
LidarObservation(g, pos) ==
    [i \in 0 .. 7 |->
        LET best == ScanSector(g, pos, i, 0, <<-1, 0>>)
        IN  [j \in 1 .. Len(resource_names) |-> IF best[2] = j THEN best[1] ELSE 0]]

\* A draw of place_obj with two objects of one beam at the same distance from
\* cell (1, 1): the Iron Ore at (3, 4) and the Silver Ore at (4, 3).
LayoutTie == <<(<<3, 4>>), (<<4, 3>>), (<<3, 1>>), (<<4, 1>>), (<<5, 1>>), (<<6, 1>>), (<<7, 1>>)>>

LidarLayouts == ExploredLayouts \cup {LayoutTie}

\* The sensor's inputs: the environment right after a first reset, for each of
\* the draws above and the agent on any empty cell.
LidarInit ==
    /\ \E lay \in LidarLayouts :
        /\ \A i \in 1 .. Len(PlaceOrder) : PlaceObjAccepts(lay, i, NoPos)
        /\ grid = GenGrid(lay)
        /\ agent_start_pos = StartPosAfterGen(GenGrid(lay), InitialStartPos)
    /\ agent_pos \in {c \in Cells : grid[c] = "Empty"}
    /\ agent_dir \in 0 .. 3
    /\ carrying = "None"
    /\ inventory = ResetInventory
    /\ sword_crafted = ResetSwordCrafted
    /\ collected_resources_global = {}
    /\ current_episode = 1
    /\ step_count = ResetStepCount
    /\ reward = 0
    /\ terminated = FALSE
    /\ truncated = FALSE
    /\ action = -1
    /\ branch = "reset"
    /\ calls = 0
    /\ process_calls = 0
    /\ ever_collected = {}
    /\ episode_events = {}
    /\ process_crafts = 0
    /\ record_at_reset = {}
    /\ lidar_obs = <<>>

\* A call of get_lidar_observation, its result kept in lidar_obs.
ObserveLidar ==
    /\ lidar_obs' = LidarObservation(grid, agent_pos)
    /\ UNCHANGED <<grid, agent_pos, agent_dir, agent_start_pos, carrying, inventory, sword_crafted, collected_resources_global, current_episode, step_count, reward, terminated, truncated, action, branch, calls, process_calls, ever_collected, episode_events, process_crafts, record_at_reset>>

LidarNext == ObserveLidar

SpecLidar == LidarInit /\ [][LidarNext]_vars

\* The objects whose bearing lies in beam i, and the nearest among them.
InBeam(i) == {c \in Cells : grid[c] # "Empty" /\ InSector(i, c[1] - agent_pos[1], c[2] - agent_pos[2])}

NearestInBeam(i) == {c \in InBeam(i) : \A d \in InBeam(i) : Dist2(c, agent_pos) <= Dist2(d, agent_pos)}

\* c comes before d column by column (x first, then y), and row by row (y
\* first, then x).
ColumnMajorBefore(c, d) == c[1] < d[1] \/ (c[1] = d[1] /\ c[2] < d[2])

RowMajorBefore(c, d) == c[2] < d[2] \/ (c[2] = d[2] /\ c[1] < d[1])

NonZeroSlots(row) == {j \in 1 .. Len(resource_names) : row[j] # 0}

\* C17 (as stated): each row of the sensor output has at most one non-zero
\* slot, the kind slot of the nearest object of the beam; of two objects of
\* the beam at the same distance, the first in the row-major enumeration of
\* the grid cells wins.
C17_NearestWinsRowMajor ==
    lidar_obs # <<>> =>
        \A i \in 0 .. 7 :
            IF InBeam(i) = {}
            THEN NonZeroSlots(lidar_obs[i]) = {}
            ELSE LET w == CHOOSE c \in NearestInBeam(i) : \A d \in NearestInBeam(i) \ {c} : RowMajorBefore(c, d)
                 IN  NonZeroSlots(lidar_obs[i]) = {EntityIndex(grid[w])}

\* C17 (amended): each row of the sensor output has at most one non-zero
\* slot, the kind slot of the nearest object of the beam; of two objects of
\* the beam at the same distance, the first in the scan of lines 122-123 wins,
\* which goes column by column (x outer, y inner).
C17_NearestWinsScanOrder ==
    lidar_obs # <<>> =>
        \A i \in 0 .. 7 :
            IF InBeam(i) = {}
            THEN NonZeroSlots(lidar_obs[i]) = {}
            ELSE LET w == CHOOSE c \in NearestInBeam(i) : \A d \in NearestInBeam(i) \ {c} : ColumnMajorBefore(c, d)
                 IN  NonZeroSlots(lidar_obs[i]) = {EntityIndex(grid[w])}

\* C17 witness: an observation with two objects of different kinds nearest in one beam.
C17_Witness == lidar_obs # <<>> /\ \E i \in 0 .. 7 : \E c, d \in NearestInBeam(i) : grid[c] # grid[d]

====
